---- MODULE Spec2Model ----
(***************************************************************************)
(* Model of saleor/wsgi/__init__.py: the WSGI pipeline                     *)
(*   health_check( cors_middleware( wsgi_input_middleware( django ) ) )    *)
(* composed at module import, the warmup request issued against it, and    *)
(* the requests the host server sends through it afterwards.               *)
(***************************************************************************)
EXTENDS Integers, Sequences, FiniteSets, TLC

\* ------------------------------------------------------------------ bounds
\* Longest CONTENT_LENGTH string the host server hands over.
MaxLen == 3
\* Longest request body held by the server's input stream.
MaxBody == 2
\* Requests in flight at once through the same pipeline.
MaxRequests == 2
\* Calls the wrapped handler makes to its response-start callback.
MaxStarts == 2
\* Reads the wrapped handler makes of wsgi.input.
MaxReads == 2

\* ------------------------------------------------------------ Python values
\* None, a key that is not in the mapping, and the values a key can hold.
None == [t |-> "None"]
Absent == [t |-> "absent"]
\* A CONTENT_LENGTH string is a sequence of characters; an int is itself.
StrVal(s) == [t |-> "str", s |-> s]
IntVal(n) == [t |-> "int", n |-> n]
\* A header value (the Origin of a request).
Text(v) == [t |-> "text", v |-> v]

\* environ.get(key): None for a key that is not in the mapping.
Get(v) == IF v = Absent THEN None ELSE v

\* Python truthiness of `origin` (None and '' are falsy).
Truthy(v) == v.t = "text" /\ v.v # ""

SeqsUpTo(S, n) == UNION {[1..k -> S] : k \in 0..n}

\* ------------------------------------------------------------------ int()
Digits == {"0", "1", "2", "3", "4", "5", "6", "7", "8", "9"}
DigitVal(c) == CASE c = "0" -> 0 [] c = "1" -> 1 [] c = "2" -> 2 [] c = "3" -> 3
                 [] c = "4" -> 4 [] c = "5" -> 5 [] c = "6" -> 6 [] c = "7" -> 7
                 [] c = "8" -> 8 [] c = "9" -> 9

\* str.strip(): leading and trailing whitespace removed.
RECURSIVE LStrip(_)
LStrip(s) == IF s # <<>> /\ Head(s) = " " THEN LStrip(Tail(s)) ELSE s
RECURSIVE RStrip(_)
RStrip(s) == IF s # <<>> /\ s[Len(s)] = " " THEN RStrip(SubSeq(s, 1, Len(s) - 1)) ELSE s
Strip(s) == RStrip(LStrip(s))

\* The digit part of an integer literal: digits, with single underscores
\* only between digits.
DigitsOk(d) ==
    /\ d # <<>>
    /\ \A i \in 1..Len(d) : d[i] \in Digits \cup {"_"}
    /\ d[1] # "_" /\ d[Len(d)] # "_"
    /\ \A i \in 1..(Len(d) - 1) : ~(d[i] = "_" /\ d[i + 1] = "_")
RECURSIVE DigitsValue(_, _)
DigitsValue(d, acc) ==
    IF d = <<>> THEN acc
    ELSE IF Head(d) = "_" THEN DigitsValue(Tail(d), acc)
    ELSE DigitsValue(Tail(d), 10 * acc + DigitVal(Head(d)))

\* int(v) as line 38 calls it: the integer, or the exception it raises.
IntOf(v) ==
    IF v.t = "int" THEN [ok |-> TRUE, n |-> v.n]
    ELSE IF v.t # "str" THEN [ok |-> FALSE, exc |-> "TypeError"]
    ELSE LET s == Strip(v.s)
             signed == s # <<>> /\ Head(s) \in {"-", "+"}
             d == IF signed THEN Tail(s) ELSE s
         IN  IF DigitsOk(d)
             THEN [ok |-> TRUE,
                   n |-> IF signed /\ Head(s) = "-" THEN 0 - DigitsValue(d, 0)
                         ELSE DigitsValue(d, 0)]
             ELSE [ok |-> FALSE, exc |-> "ValueError"]

\* Lines 36-40: the CONTENT_LENGTH entry after the wrapper; a key that is
\* not in environ is left out.
\* (the entry left as it came, for comparison)
CoerceKeepsValue(cl) == cl
CoerceContentLength(cl) ==
    IF cl = Absent THEN Absent
    ELSE LET i == IntOf(cl)
         IN  IF i.ok THEN IntVal(i.n)
             ELSE IntVal(0)    \* except (ValueError, TypeError)

\* ---------------------------------------------------------------- streams
\* stream.read(): the bytes from the position to the end; the stream is left
\* at its end.
StreamRead(s) == [bytes |-> SubSeq(s.data, s.pos + 1, Len(s.data)),
                  after |-> [s EXCEPT !.pos = Len(s.data)]]
\* io.BytesIO(body): a buffer of its own, positioned at the start.
\* (a buffer left at its end, as after a write, for comparison)
BytesIOAtEnd(body) == [t |-> "BytesIO", data |-> body, pos |-> Len(body)]
BytesIO(body) == [t |-> "BytesIO", data |-> body, pos |-> 0]
\* hasattr(input_stream, 'read')
HasRead(i) == i.t \in {"stream", "BytesIO"}

\* ------------------------------------------------------------------- CORS
\* Lines 89-96; first with a wildcard in place of the echoed origin, for
\* comparison.
CorsHeadersWildcard(origin) ==
    << <<"Access-Control-Allow-Origin", "*">>,
       <<"Access-Control-Allow-Credentials", "true">>,
       <<"Access-Control-Allow-Methods", "POST, GET, OPTIONS">>,
       <<"Access-Control-Allow-Headers", "Content-Type, Authorization, authorization-bearer">>,
       <<"Access-Control-Max-Age", "3600">>,
       <<"Access-Control-Expose-Headers", "Content-Type, Authorization">> >>
CorsHeaders(origin) ==
    << <<"Access-Control-Allow-Origin", origin.v>>,
       <<"Access-Control-Allow-Credentials", "true">>,
       <<"Access-Control-Allow-Methods", "POST, GET, OPTIONS">>,
       <<"Access-Control-Allow-Headers", "Content-Type, Authorization, authorization-bearer">>,
       <<"Access-Control-Max-Age", "3600">>,
       <<"Access-Control-Expose-Headers", "Content-Type, Authorization">> >>

\* Lines 86-98, cors_response: the header list start_response receives (the
\* list it was given, extended in place when origin is truthy). The first
\* two, for comparison, put the headers in front, or add them always.
CorsResponsePrepends(origin, response_headers) ==
    IF Truthy(origin) THEN CorsHeaders(origin) \o response_headers
    ELSE response_headers
CorsResponseAlways(origin, response_headers) ==
    response_headers \o CorsHeaders(IF origin.t = "text" THEN origin ELSE Text("null"))
CorsResponse(origin, response_headers) ==
    IF Truthy(origin) THEN response_headers \o CorsHeaders(origin)
    ELSE response_headers

\* Lines 101-106, the preflight branch: the calls it makes to start_response
\* (first, for comparison, with the call made whatever the origin).
PreflightAlwaysResponds(origin) ==
    << [status |-> "200 OK", headers |-> CorsResponse(origin, <<>>)] >>
Preflight(origin) ==
    IF Truthy(origin)
    THEN << [status |-> "200 OK", headers |-> CorsResponse(origin, <<>>)] >>
    ELSE <<>>

\* A response body: its chunks, and the exception iterating it raises.
Body(chunks, fails) == [t |-> "body", chunks |-> chunks, fails |-> fails]
\* [b'']
EmptyBody == Body(<< <<>> >>, "none")
RECURSIVE Concat(_)
Concat(chunks) == IF chunks = <<>> THEN <<>> ELSE Head(chunks) \o Concat(Tail(chunks))

\* `except Exception` (lines 73 and 120): SystemExit, KeyboardInterrupt and
\* GeneratorExit derive from BaseException only. (First, for comparison, a
\* handler that catches nothing.)
ExceptNothing(exc) == FALSE
ExceptException(exc) == exc \notin {"SystemExit", "KeyboardInterrupt", "GeneratorExit"}

\* ------------------------------------------------------------------ state
\* Request 0 is the warmup's; 1..MaxRequests are the host server's.
Warmup == 0
ReqIds == 0..MaxRequests

VARIABLES
    initPc,       \* where the module's import stands
    application,  \* the module-level name: the layers, outermost first
    warmup,       \* what the warmup did: handler calls, exception, warnings
    pc,           \* per request: idle, call, django, returned, raised
    depth,        \* per request: the layer of `application` being called
    environ,      \* per request: the environ mapping, mutated in place
    stream,       \* per request: the host server's input stream object
    recv,         \* per request: environ and stream as the request arrived
    origin,       \* per request: `origin` of the cors closure (line 84)
    handled,      \* per request: environ as the framework handler got it
    appCalls,     \* per request: (status, headers) the handler passed on
    hdrList,      \* per request: the handler's header list object
    sent,         \* per request: (status, headers) start_response received
    reads,        \* per request: the handler's reads of wsgi.input
    result        \* per request: the body returned, or the exception raised

vars == <<initPc, application, warmup, pc, depth, environ, stream, recv, origin,
          handled, appCalls, hdrList, sent, reads, result>>
reqVars == <<pc, depth, environ, stream, recv, origin, handled, appCalls,
             hdrList, sent, reads, result>>
modVars == <<initPc, application, warmup>>

NoEnviron == [method |-> "", path |-> "", origin |-> Absent, cl |-> Absent,
              input |-> Absent]
NoStream == [data |-> <<>>, pos |-> 0]
Unbound == [t |-> "unbound"]
NoResult == [t |-> "none"]
Raised(exc) == [t |-> "raised", exc |-> exc]

\* Lines 51-66: the fabricated request.
WarmupEnviron ==
    [method |-> "POST", path |-> "/graphql/", origin |-> Absent,
     cl |-> StrVal(<<"2">>), input |-> BytesIO(<<"{", "}">>)]

\* Lines 112-115: the order the layers are wrapped in, innermost first.
WrapOrder == <<"django", "wsgi_input", "cors", "health_check">>
\* Line 119 follows line 115: the warmup is issued once every layer is on
\* (first, for comparison, as soon as the framework's handler is bound).
WarmupEarly == Len(application) >= 1
WarmupReady == Len(application) = Len(WrapOrder)

Init ==
    /\ initPc = "import"
    /\ application = <<>>
    /\ warmup = [calls |-> 0, raised |-> "none", warnings |-> <<>>]
    /\ pc = [r \in ReqIds |-> "idle"]
    /\ depth = [r \in ReqIds |-> 0]
    /\ environ = [r \in ReqIds |-> NoEnviron]
    /\ stream = [r \in ReqIds |-> NoStream]
    /\ recv = [r \in ReqIds |-> [env |-> NoEnviron, stream |-> NoStream]]
    /\ origin = [r \in ReqIds |-> Unbound]
    /\ handled = [r \in ReqIds |-> NoEnviron]
    /\ appCalls = [r \in ReqIds |-> <<>>]
    /\ hdrList = [r \in ReqIds |-> <<>>]
    /\ sent = [r \in ReqIds |-> <<>>]
    /\ reads = [r \in ReqIds |-> <<>>]
    /\ result = [r \in ReqIds |-> NoResult]

\* ------------------------------------------------------- module import
\* Lines 112-115: one more layer wrapped around `application`.
Compose ==
    /\ initPc = "import"
    /\ Len(application) < Len(WrapOrder)
    /\ application' = <<WrapOrder[Len(application) + 1]>> \o application
    /\ UNCHANGED <<initPc, warmup>>
    /\ UNCHANGED reqVars

\* Lines 119, 51-72: warmup_application(application) builds the environ and
\* calls the handler bound to `application`.
WarmupCall ==
    /\ initPc = "import"
    /\ WarmupReady
    /\ initPc' = "in_warmup"
    /\ warmup' = [warmup EXCEPT !.calls = @ + 1]
    /\ pc' = [pc EXCEPT ![Warmup] = "call"]
    /\ depth' = [depth EXCEPT ![Warmup] = 1]
    /\ environ' = [environ EXCEPT ![Warmup] = WarmupEnviron]
    /\ recv' = [recv EXCEPT ![Warmup] = [env |-> WarmupEnviron, stream |-> NoStream]]
    /\ UNCHANGED <<application, stream, origin, handled, appCalls, hdrList, sent,
                   reads, result>>

\* Lines 72-76 and 118-123: list(...) iterates the body; `except Exception`
\* in warmup_application, then around the call at module level.
WarmupFinish ==
    /\ initPc = "in_warmup"
    /\ pc[Warmup] \in {"returned", "raised"}
    /\ LET exc == IF pc[Warmup] = "raised" THEN result[Warmup].exc
                  ELSE result[Warmup].fails
           inner == exc # "none" /\ ExceptException(exc)
           outer == exc # "none" /\ ~inner /\ ExceptException(exc)
       IN  /\ warmup' = [warmup EXCEPT
                 !.raised = exc,
                 !.warnings = IF inner THEN Append(@, "Warmup request failed")
                              ELSE IF outer THEN Append(@, "Application warmup failed")
                              ELSE @]
           /\ initPc' = IF exc = "none" \/ inner \/ outer THEN "serving" ELSE "aborted"
    \* the warmup's environ, callback and body are dropped
    /\ pc' = [pc EXCEPT ![Warmup] = "idle"]
    /\ depth' = [depth EXCEPT ![Warmup] = 0]
    /\ environ' = [environ EXCEPT ![Warmup] = NoEnviron]
    /\ recv' = [recv EXCEPT ![Warmup] = [env |-> NoEnviron, stream |-> NoStream]]
    /\ origin' = [origin EXCEPT ![Warmup] = Unbound]
    /\ handled' = [handled EXCEPT ![Warmup] = NoEnviron]
    /\ appCalls' = [appCalls EXCEPT ![Warmup] = <<>>]
    /\ hdrList' = [hdrList EXCEPT ![Warmup] = <<>>]
    /\ sent' = [sent EXCEPT ![Warmup] = <<>>]
    /\ reads' = [reads EXCEPT ![Warmup] = <<>>]
    /\ result' = [result EXCEPT ![Warmup] = NoResult]
    /\ UNCHANGED <<application, stream>>

\* ------------------------------------------------------------- requests
\* The layer a request's call has reached.
Layer(r) == application[depth[r]]
AtLayer(r, name) ==
    /\ pc[r] = "call"
    /\ depth[r] \in 1..Len(application)
    /\ Layer(r) = name

\* The host server calls application(environ, start_response).
Receive(r, inputs) ==
    /\ initPc = "serving"
    /\ r # Warmup
    /\ pc[r] = "idle"
    /\ \E i \in inputs :
        /\ environ' = [environ EXCEPT ![r] = i.env]
        /\ stream' = [stream EXCEPT ![r] = i.stream]
        /\ recv' = [recv EXCEPT ![r] = i]
    /\ pc' = [pc EXCEPT ![r] = "call"]
    /\ depth' = [depth EXCEPT ![r] = 1]
    /\ UNCHANGED <<origin, handled, appCalls, hdrList, sent, reads, result>>
    /\ UNCHANGED modVars

\* health_check(application, "/health/"), line 115: the fixed path is
\* answered here, every other request is passed on unchanged.
HealthCheck(r) ==
    /\ AtLayer(r, "health_check")
    /\ IF environ[r].path = "/health/"
       THEN /\ sent' = [sent EXCEPT ![r] =
                   Append(@, [status |-> "200 OK",
                              headers |-> << <<"Content-Type", "text/plain">> >>])]
            /\ result' = [result EXCEPT ![r] = Body(<< <<>> >>, "none")]
            /\ pc' = [pc EXCEPT ![r] = "returned"]
            /\ UNCHANGED depth
       ELSE /\ depth' = [depth EXCEPT ![r] = @ + 1]
            /\ UNCHANGED <<sent, result, pc>>
    /\ UNCHANGED <<environ, stream, recv, origin, handled, appCalls, hdrList, reads>>
    /\ UNCHANGED modVars

\* Lines 82-108, cors_middleware.middleware.
CorsMiddleware(r) ==
    /\ AtLayer(r, "cors")
    /\ LET o == Get(environ[r].origin)
       IN  /\ origin' = [origin EXCEPT ![r] = o]
           /\ IF environ[r].method = "OPTIONS"
              THEN /\ sent' = [sent EXCEPT ![r] = @ \o Preflight(o)]
                   /\ result' = [result EXCEPT ![r] = EmptyBody]
                   /\ pc' = [pc EXCEPT ![r] = "returned"]
                   /\ UNCHANGED depth
              ELSE /\ depth' = [depth EXCEPT ![r] = @ + 1]
                   /\ UNCHANGED <<sent, result, pc>>
    /\ UNCHANGED <<environ, stream, recv, handled, appCalls, hdrList, reads>>
    /\ UNCHANGED modVars

\* Lines 29-42, wsgi_input_middleware.middleware.
WsgiInputMiddleware(r) ==
    /\ AtLayer(r, "wsgi_input")
    /\ LET env == environ[r]
           readable == env.input # Absent /\ HasRead(env.input)
           rd == IF env.input.t = "stream" THEN StreamRead(stream[r])
                 ELSE StreamRead(env.input)
       IN  /\ environ' = [environ EXCEPT ![r] =
                   [env EXCEPT !.input = IF readable THEN BytesIO(rd.bytes) ELSE @,
                               !.cl = CoerceContentLength(@)]]
           /\ stream' = [stream EXCEPT ![r] =
                   IF readable /\ env.input.t = "stream" THEN rd.after ELSE @]
    /\ depth' = [depth EXCEPT ![r] = @ + 1]
    /\ UNCHANGED <<pc, recv, origin, handled, appCalls, hdrList, sent, reads, result>>
    /\ UNCHANGED modVars

\* ------------------------------------------- the framework's handler
\* get_wsgi_application() (line 112) is Django's; what it may do with the
\* environ and the callback it is given is left open.
DjangoEnter(r) ==
    /\ AtLayer(r, "django")
    /\ pc' = [pc EXCEPT ![r] = "django"]
    /\ handled' = [handled EXCEPT ![r] = environ[r]]
    /\ UNCHANGED <<depth, environ, stream, recv, origin, appCalls, hdrList, sent,
                   reads, result>>
    /\ UNCHANGED modVars

\* The `origin` the callback of request r closes over (first, for
\* comparison, one slot shared by the requests in flight).
ClosureOriginShared(r) ==
    LET bound == {q \in ReqIds : origin[q] # Unbound}
    IN  origin[CHOOSE q \in bound : \A p \in bound : q <= p]
ClosureOrigin(r) == origin[r]

\* The handler calls the callback it was given: cors_response when the
\* request came through cors_middleware, else the caller's start_response.
\* The header list is a new one, or the list object it passed before.
DjangoStartResponse(r, statuses, lists) ==
    /\ pc[r] = "django"
    /\ Len(appCalls[r]) < MaxStarts
    /\ \E status \in statuses,
          hs \in lists \cup (IF appCalls[r] = <<>> THEN {} ELSE {hdrList[r]}) :
        LET out == IF origin[r] = Unbound THEN hs
                   ELSE CorsResponse(ClosureOrigin(r), hs)
        IN  /\ appCalls' = [appCalls EXCEPT ![r] =
                    Append(@, [status |-> status, headers |-> hs])]
            /\ hdrList' = [hdrList EXCEPT ![r] = out]
            /\ sent' = [sent EXCEPT ![r] =
                    Append(@, [status |-> status, headers |-> out])]
    /\ UNCHANGED <<pc, depth, environ, stream, recv, origin, handled, reads, result>>
    /\ UNCHANGED modVars

\* The handler reads wsgi.input to its end.
DjangoRead(r) ==
    /\ pc[r] = "django"
    /\ Len(reads[r]) < MaxReads
    /\ environ[r].input # Absent
    /\ HasRead(environ[r].input)
    /\ LET inp == environ[r].input
           rd == IF inp.t = "stream" THEN StreamRead(stream[r]) ELSE StreamRead(inp)
           at == IF inp.t = "stream" THEN stream[r].pos ELSE inp.pos
       IN  /\ reads' = [reads EXCEPT ![r] = Append(@, [at |-> at, bytes |-> rd.bytes])]
           /\ IF inp.t = "stream"
              THEN /\ stream' = [stream EXCEPT ![r] = rd.after]
                   /\ UNCHANGED environ
              ELSE /\ environ' = [environ EXCEPT ![r].input = rd.after]
                   /\ UNCHANGED stream
    /\ UNCHANGED <<pc, depth, recv, origin, handled, appCalls, hdrList, sent, result>>
    /\ UNCHANGED modVars

\* The handler rewinds wsgi.input: seek(0), which a BytesIO supports.
DjangoSeek(r) ==
    /\ pc[r] = "django"
    /\ environ[r].input # Absent
    /\ environ[r].input.t = "BytesIO"
    /\ environ[r].input.pos # 0
    /\ environ' = [environ EXCEPT ![r].input.pos = 0]
    /\ UNCHANGED <<pc, depth, stream, recv, origin, handled, appCalls, hdrList,
                   sent, reads, result>>
    /\ UNCHANGED modVars

\* The handler returns its body; every layer returns it as it is.
DjangoReturn(r, bodies) ==
    /\ pc[r] = "django"
    /\ \E b \in bodies : result' = [result EXCEPT ![r] = b]
    /\ pc' = [pc EXCEPT ![r] = "returned"]
    /\ UNCHANGED <<depth, environ, stream, recv, origin, handled, appCalls, hdrList,
                   sent, reads>>
    /\ UNCHANGED modVars

\* The handler raises; no layer catches, the caller gets the exception.
DjangoRaise(r, excs) ==
    /\ pc[r] = "django"
    /\ \E e \in excs : result' = [result EXCEPT ![r] = Raised(e)]
    /\ pc' = [pc EXCEPT ![r] = "raised"]
    /\ UNCHANGED <<depth, environ, stream, recv, origin, handled, appCalls, hdrList,
                   sent, reads>>
    /\ UNCHANGED modVars

\* ------------------------------------------------------- what arrives
Methods == {"GET", "POST", "OPTIONS"}
Paths == {"/graphql/", "/health/"}
Origins == {Absent, Text(""), Text("https://example.com"), Text("https://shop.example")}
Statuses == {"200 OK", "404 Not Found"}
HeaderLists == {<<>>, << <<"Content-Type", "application/json">> >>}
Excs == {"ValueError", "SystemExit"}
JsonBody == Body(<< <<"{", "}">> >>, "none")
Bodies == {JsonBody} \cup {Body(<<>>, e) : e \in Excs}
Bytes == {"{", "}"}
Chars == {"0", "2", "-", "+", " ", "_", "x"}

ServerStream(data, pos) == [data |-> data, pos |-> pos]
Request(m, p, o, c, i, s) ==
    [env |-> [method |-> m, path |-> p, origin |-> o, cl |-> c, input |-> i],
     stream |-> s]

\* Requests of every method, path and Origin, with a two-byte body.
ServeInputs ==
    {Request(m, p, o, StrVal(<<"2">>), [t |-> "stream"], ServerStream(<<"{", "}">>, 0)) :
        m \in Methods, p \in Paths, o \in Origins}

\* Requests of two origins and none, for several in flight at once.
ConcurrentInputs ==
    {Request(m, "/graphql/", o, Absent, Absent, NoStream) :
        m \in {"GET", "OPTIONS"},
        o \in {Absent, Text("https://example.com"), Text("https://shop.example")}}

\* CONTENT_LENGTH of every kind, and input streams of every content and
\* position, a stream that cannot be read, and none.
ContentLengths ==
    {Absent, None, IntVal(7)} \cup {StrVal(s) : s \in SeqsUpTo(Chars, MaxLen)}
Streams ==
    {ServerStream(d, p) : d \in SeqsUpTo(Bytes, MaxBody), p \in 0..MaxBody}
InputInputs ==
    {Request("POST", "/graphql/", Absent, c, i, NoStream) :
        c \in ContentLengths, i \in {Absent, [t |-> "object"]}}
    \cup {Request("POST", "/graphql/", Absent, c, [t |-> "stream"], s) :
        c \in ContentLengths,
        s \in {ServerStream(<<>>, 0), ServerStream(<<"{", "}">>, 1)}}
    \cup {Request("POST", "/graphql/", Absent, c, [t |-> "stream"], s) :
        c \in {Absent, StrVal(<<"2">>), StrVal(<<"x">>)},
        s \in {t \in Streams : t.pos <= Len(t.data)}}

\* ------------------------------------------------------ specifications
Import == Compose \/ WarmupCall \/ WarmupFinish
Layers(r) ==
    \/ HealthCheck(r)
    \/ CorsMiddleware(r)
    \/ WsgiInputMiddleware(r)
    \/ DjangoEnter(r)

\* The import, the warmup and one request from the host server.
Next ==
    \/ Import
    \/ \E r \in {Warmup, 1} :
        \/ Receive(r, ServeInputs)
        \/ Layers(r)
        \/ DjangoStartResponse(r, Statuses, HeaderLists)
        \/ DjangoReturn(r, Bodies)
        \/ DjangoRaise(r, Excs)
Spec == Init /\ [][Next]_vars

\* The import, then one request whose CONTENT_LENGTH and wsgi.input vary.
NextInput ==
    \/ Import
    \/ \E r \in {Warmup, 1} :
        \/ Receive(r, InputInputs)
        \/ Layers(r)
        \/ DjangoRead(r)
        \/ DjangoSeek(r)
        \/ DjangoReturn(r, {JsonBody})
SpecInput == Init /\ [][NextInput]_vars

\* The import, then MaxRequests requests in flight at once.
NextConcurrent ==
    \/ Import
    \/ \E r \in ReqIds :
        \/ Receive(r, ConcurrentInputs)
        \/ Layers(r)
        \/ DjangoStartResponse(r, {"200 OK"}, {<<>>})
        \/ DjangoReturn(r, {JsonBody})
SpecConcurrent == Init /\ [][NextConcurrent]_vars

\* ---------------------------------------------------------- properties
\* The six CORS headers of the interface, for the Origin value o.
SixCorsHeaders(o) ==
    << <<"Access-Control-Allow-Origin", o>>,
       <<"Access-Control-Allow-Credentials", "true">>,
       <<"Access-Control-Allow-Methods", "POST, GET, OPTIONS">>,
       <<"Access-Control-Allow-Headers", "Content-Type, Authorization, authorization-bearer">>,
       <<"Access-Control-Max-Age", "3600">>,
       <<"Access-Control-Expose-Headers", "Content-Type, Authorization">> >>
CorsNames == {SixCorsHeaders("")[i][1] : i \in 1..6}

\* Request r has been through cors_middleware.
ThroughCors(r) == origin[r] # Unbound
Preflighted(r) == ThroughCors(r) /\ recv[r].env.method = "OPTIONS"
Forwarded(r) == ThroughCors(r) /\ recv[r].env.method # "OPTIONS"
HasOrigin(r) == recv[r].env.origin # Absent /\ recv[r].env.origin.v # ""

\* C1: every OPTIONS request, with or without an Origin, is answered at once
\* by the CORS middleware with status 200 and an empty body, and the wrapped
\* application is not invoked.
C1_PreflightAnswered200 ==
    \A r \in ReqIds : Preflighted(r) =>
        /\ pc[r] = "returned"
        /\ Len(sent[r]) = 1
        /\ sent[r][1].status = "200 OK"
        /\ Concat(result[r].chunks) = <<>>
        /\ handled[r] = NoEnviron

\* C2: an OPTIONS request with a non-empty Origin gets exactly one call of
\* start_response, with '200 OK' and exactly the six CORS headers (the
\* Allow-Origin being the request's Origin), and a body that is empty.
C2_PreflightWithOrigin ==
    \A r \in ReqIds : (Preflighted(r) /\ HasOrigin(r)) =>
        /\ pc[r] = "returned"
        /\ sent[r] = << [status |-> "200 OK",
                         headers |-> SixCorsHeaders(recv[r].env.origin.v)] >>
        /\ result[r].t = "body"
        /\ Concat(result[r].chunks) = <<>>
        /\ handled[r] = NoEnviron
C2_Witness ==
    \E r \in ReqIds :
        /\ Preflighted(r)
        /\ recv[r].env.origin = Text("https://example.com")
        /\ Len(sent[r]) = 1

C4_NoOriginUnmodified ==
    \A r \in ReqIds : (Forwarded(r) /\ ~HasOrigin(r)) => sent[r] = appCalls[r]
C4_Witness ==
    \E r \in ReqIds :
        /\ Forwarded(r)
        /\ recv[r].env.origin = Absent
        /\ Len(sent[r]) >= 1
        /\ sent[r][1].headers = << <<"Content-Type", "application/json">> >>

\* C8: an OPTIONS request with no Origin, or an empty one, gets the body
\* [b''] and start_response is never called for it.
C8_OriginlessPreflightSilent ==
    \A r \in ReqIds : (Preflighted(r) /\ ~HasOrigin(r)) =>
        /\ pc[r] = "returned"
        /\ sent[r] = <<>>
        /\ result[r].t = "body"
        /\ result[r].chunks = << <<>> >>
        /\ handled[r] = NoEnviron
C8_Witness ==
    \E r \in ReqIds :
        /\ Preflighted(r)
        /\ recv[r].env.origin = Absent
        /\ pc[r] = "returned"

\* C9: with several requests in flight through the same middleware, in any
\* interleaving, each response carries the Allow-Origin of its own request,
\* and a request with no Origin gets no CORS header.
AllowOrigins(hs) ==
    {hs[i][2] : i \in {j \in 1..Len(hs) : hs[j][1] = "Access-Control-Allow-Origin"}}
C9_OwnOrigin ==
    \A r \in ReqIds : \A i \in 1..Len(sent[r]) :
        IF HasOrigin(r)
        THEN AllowOrigins(sent[r][i].headers) = {recv[r].env.origin.v}
        ELSE \A j \in 1..Len(sent[r][i].headers) :
                sent[r][i].headers[j][1] \notin CorsNames
C9_Witness ==
    \E r, q \in ReqIds :
        /\ r < q
        /\ pc[r] = "django" /\ pc[q] = "django"
        /\ recv[r].env.origin # recv[q].env.origin
        /\ HasOrigin(r)
        /\ Len(sent[r]) >= 1 /\ Len(sent[q]) >= 1

\* str(n) of an integer, and the strings that are str(n) of some integer.
DigitChar(k) == CASE k = 0 -> "0" [] k = 1 -> "1" [] k = 2 -> "2" [] k = 3 -> "3"
                  [] k = 4 -> "4" [] k = 5 -> "5" [] k = 6 -> "6" [] k = 7 -> "7"
                  [] k = 8 -> "8" [] k = 9 -> "9"
RECURSIVE NatStr(_)
NatStr(n) == IF n < 10 THEN <<DigitChar(n)>>
             ELSE NatStr(n \div 10) \o <<DigitChar(n % 10)>>
Str(n) == IF n < 0 THEN <<"-">> \o NatStr(0 - n) ELSE NatStr(n)
IsDecimal(s) ==
    LET neg == s # <<>> /\ s[1] = "-"
        d == IF neg THEN Tail(s) ELSE s
    IN  /\ d # <<>>
        /\ \A i \in 1..Len(d) : d[i] \in Digits
        /\ Len(d) > 1 => d[1] # "0"
        /\ ~(neg /\ d = <<"0">>)
\* A value that is no number: None, or a string with no digit in it or with
\* a character that no integer literal has.
NonNumeric(v) ==
    \/ v = None
    \/ /\ v.t = "str"
       /\ \/ \A i \in 1..Len(v.s) : v.s[i] \notin Digits
          \/ \E i \in 1..Len(v.s) : v.s[i] \notin Digits \cup {"-", "+", " ", "_"}

\* Request r is past wsgi_input_middleware: the wrapped handler has it.
Normalized(r) == handled[r] # NoEnviron

IntegerStringsStored(r) ==
    LET in == recv[r].env.cl
        out == handled[r].cl
    IN  /\ (in.t = "str" /\ IsDecimal(in.s)) => (out.t = "int" /\ in.s = Str(out.n))
        /\ in = StrVal(<<" ", "2">>) => out = IntVal(2)
        /\ in = StrVal(<<"+", "2">>) => out = IntVal(2)
        /\ in = StrVal(<<"0", "2">>) => out = IntVal(2)
        /\ in = StrVal(<<"2", "_", "0">>) => out = IntVal(20)
        /\ in = StrVal(<<"-", "2", " ">>) => out = IntVal(0 - 2)
        /\ NonNumeric(in) => out = IntVal(0)

\* C5 as claimed: after the body-normalization wrapper, CONTENT_LENGTH is the
\* integer N when the incoming value was an integer string for N, and zero
\* when it was non-numeric or missing.
C5_MissingStoredAsZero ==
    \A r \in ReqIds : Normalized(r) =>
        /\ IntegerStringsStored(r)
        /\ recv[r].env.cl = Absent => handled[r].cl = IntVal(0)

\* C5 as amended: after the body-normalization wrapper, CONTENT_LENGTH is the
\* integer N when the incoming value was an integer string for N, zero when
\* it was present and non-numeric (None and '' included), and still not in
\* environ when the request had none.
C5_ContentLengthCoerced ==
    \A r \in ReqIds : Normalized(r) =>
        /\ IntegerStringsStored(r)
        /\ recv[r].env.cl = Absent => handled[r].cl = Absent
C5_Witness ==
    \E r \in ReqIds :
        /\ r # Warmup
        /\ Normalized(r)
        /\ recv[r].env.cl = StrVal(<<"-", "2", "0">>)
        /\ handled[r].cl = IntVal(0 - 20)

\* The bytes of the request's input that were still unread when it arrived.
Remaining(r) ==
    LET s == IF recv[r].env.input.t = "stream" THEN recv[r].stream
             ELSE recv[r].env.input
    IN  [i \in 1..(Len(s.data) - s.pos) |-> s.data[s.pos + i]]
Readable(r) ==
    /\ recv[r].env.input # Absent
    /\ recv[r].env.input.t \in {"stream", "BytesIO"}

\* C6: when environ holds a readable input stream, the wrapped application
\* gets in wsgi.input a buffer at position 0 whose content is the remaining
\* bytes of the original stream, and every read from the start, the first
\* and those after a rewind, yields these bytes.
C6_InputRereadable ==
    \A r \in ReqIds : (Normalized(r) /\ Readable(r)) =>
        /\ handled[r].input = [t |-> "BytesIO", data |-> Remaining(r), pos |-> 0]
        /\ environ[r].input.t = "BytesIO"
        /\ environ[r].input.data = Remaining(r)
        /\ \A i \in 1..Len(reads[r]) :
              reads[r][i].at = 0 => reads[r][i].bytes = Remaining(r)
        /\ reads[r] # <<>> => reads[r][1].at = 0
C6_Witness ==
    \E r \in ReqIds :
        /\ r # Warmup
        /\ Normalized(r)
        /\ recv[r].stream = ServerStream(<<"{", "}">>, 1)
        /\ Len(reads[r]) = 2
        /\ reads[r][1] = [at |-> 0, bytes |-> <<"}">>]
        /\ reads[r][2] = [at |-> 0, bytes |-> <<"}">>]

BaseExceptionsOnly == {"SystemExit", "KeyboardInterrupt", "GeneratorExit"}
WarmupOver == initPc \in {"serving", "aborted"}

\* C7 as claimed: the warmup invokes the handler exactly once and, whatever
\* the handler does, no exception escapes and the import completes.
C7_NothingEscapes ==
    /\ warmup.calls <= 1
    /\ WarmupOver => warmup.calls = 1
    /\ initPc # "aborted"

\* C7 as amended: the warmup invokes the handler exactly once; when the
\* handler returns, or raises an exception that derives from Exception (on
\* the call or while the body is iterated), nothing escapes, a warning is
\* logged for the exception and the import completes; an exception that
\* derives from BaseException only (SystemExit, KeyboardInterrupt,
\* GeneratorExit) escapes both handlers and ends the import.
C7_ExceptionsSwallowed ==
    /\ warmup.calls <= 1
    /\ WarmupOver => warmup.calls = 1
    /\ initPc = "aborted" => warmup.raised \in BaseExceptionsOnly
    /\ initPc = "serving" =>
          /\ warmup.raised \notin BaseExceptionsOnly
          /\ warmup.warnings = IF warmup.raised = "none" THEN <<>>
                               ELSE <<"Warmup request failed">>
C7_Witness ==
    /\ initPc = "serving"
    /\ warmup.calls = 1
    /\ warmup.raised = "ValueError"

\* C10: the warmup is issued only once the pipeline is whole (health check
\* outermost, then CORS, then body normalization, then the framework) and
\* against the outermost layer; its request reaches the framework handler
\* with CONTENT_LENGTH the integer 2 and a wsgi.input that reads {}, and the
\* response gets no CORS header.
C10_WarmupThroughPipeline ==
    /\ warmup.calls >= 1 =>
          application = <<"health_check", "cors", "wsgi_input", "django">>
    /\ pc[Warmup] # "idle" =>
          /\ recv[Warmup].env.method = "POST"
          /\ recv[Warmup].env.path = "/graphql/"
          /\ recv[Warmup].env.origin = Absent
    /\ Normalized(Warmup) =>
          /\ depth[Warmup] = 4
          /\ ThroughCors(Warmup)
          /\ handled[Warmup].cl = IntVal(2)
          /\ handled[Warmup].input.t = "BytesIO"
          /\ handled[Warmup].input.pos = 0
          /\ handled[Warmup].input.data = <<"{", "}">>
          /\ sent[Warmup] = appCalls[Warmup]
C10_Witness ==
    /\ Normalized(Warmup)
    /\ pc[Warmup] = "django"
    /\ Len(sent[Warmup]) = 1
    /\ sent[Warmup][1].headers = << <<"Content-Type", "application/json">> >>
====
